---- MODULE Spec2Model ----
(***************************************************************************)
(* One-way coupling of the pywatershed hydrologic model (prms_model) to    *)
(* MODFLOW 6 (mf6) as scripted in exercises/pywatershed/step3_mf6_api.ipynb *)
(*                                                                         *)
(* The state is the notebook namespace together with the state of the two  *)
(* simulators that the notebook reads and writes.  pc is the position of   *)
(* the kernel in the cells that set up, run and export the coupled run.    *)
(* Every call into a simulator that may raise is a nondeterministic choice *)
(* between returning and raising; an exception that no except clause of    *)
(* the cell catches ends the cell (pc = "raised").  The kernel keeps the   *)
(* namespace after a cell has raised, so the cell that follows can still   *)
(* be run.                                                                 *)
(*                                                                         *)
(* Quantities are integers.  in2m stands for the fixed positive factor     *)
(* 1/(12*m2ft) and hru_area_m2 for the per-HRU areas in m2.                *)
(***************************************************************************)
EXTENDS Integers, Sequences, FiniteSets, TLC

VARIABLES
    pc,               \* position of the kernel in the notebook
    istep,            \* loop variable of the coupling loop
    control_n_times,  \* control.n_times
    ntimes,           \* ntimes = int(control.n_times)
    n_time_steps,     \* n_time_steps = control.n_times
    current_time,     \* control.current_time (days since start)
    mf6_current_time, \* mf6.get_current_time()
    mf6_end_time,     \* mf6.get_end_time()
    prms,             \* process state of prms_model: field name -> vector over HRUs
    loc,              \* arrays the loop body allocates: prms_infil, uzf_recharge, prms_ro
    prms_var_dict,    \* custom in-memory output
    mf6_vars,         \* MF6 memory behind the pointers SINF, PET, RUNOFF
    sfrw,             \* HRU to SFR weights
    uzfw,             \* HRU to UZF weights
    hru_area_m2,      \* HRU areas
    success,          \* the name success (FALSE while unbound)
    error,            \* the exception the loop cell ended with
    exported,         \* the datasets written by the export cell
    log,              \* call-order tokens, one per call or statement
    prms_forcing,     \* what drives prms_model: <<>> (any day), or the fields of each step
    probe             \* a function of the notebook applied to drawn arguments

vars == <<pc, istep, control_n_times, ntimes, n_time_steps, current_time,
          mf6_current_time, mf6_end_time, prms, loc, prms_var_dict, mf6_vars,
          sfrw, uzfw, hru_area_m2, success, error, exported, log,
          prms_forcing, probe>>

----------------------------------------------------------------------------
(* Bounds of the model *)

MaxSteps == 2
MaxProfile == 2
NHRU == 2
NUzf == 2
NSfr == 2

(* Program constants *)

in2m == 2
NLay == 2

NoStep == -1
EmptyTime == -1

HRUs == 1..NHRU

FieldNames ==
    {"hru_ppt", "hru_actet", "unused_potet", "hru_horton_cascflow",
     "dunnian_flow", "pref_flow", "slow_flow", "ssres_in", "pref_flow_infil",
     "ssr_to_gw", "soil_to_gw"}

FieldIdx(f) ==
    CASE f = "hru_ppt" -> 1
      [] f = "hru_actet" -> 2
      [] f = "unused_potet" -> 3
      [] f = "hru_horton_cascflow" -> 4
      [] f = "dunnian_flow" -> 5
      [] f = "pref_flow" -> 6
      [] f = "slow_flow" -> 7
      [] f = "ssres_in" -> 8
      [] f = "pref_flow_infil" -> 9
      [] f = "ssr_to_gw" -> 10
      [] f = "soil_to_gw" -> 11

(* What prms_model.calculate() leaves in field f at HRU h: one of the      *)
(* profiles 0..MaxProfile (profile 0 is a dry day, all fields zero).       *)
FieldValue(f, h, p) == p * (FieldIdx(f) + h)

ZeroVec == [h \in HRUs |-> 0]

----------------------------------------------------------------------------
(* Vector arithmetic of the loop body *)

VecAdd(a, b) == [h \in DOMAIN a |-> a[h] + b[h]]

RECURSIVE DotTo(_, _, _)
DotTo(row, values, n) ==
    IF n = 0 THEN 0 ELSE DotTo(row, values, n - 1) + row[n] * values[n]

(* the product with each row rescaled by the number of sources *)
hru2mf6_Mean(weights, values) ==
    [t \in 1..Len(weights) |->
       DotTo(weights[t], values, Len(values)) \div Len(values)]

(* def hru2mf6(weights, values): return weights.dot(values) *)
hru2mf6(weights, values) ==
    [t \in 1..Len(weights) |-> DotTo(weights[t], values, Len(values))]

(* a conversion with the area added instead of multiplied *)
ToVolume_Offset(x, area) == [h \in DOMAIN x |-> x[h] * in2m + area[h]]

(* x *= in2m * hru_area_m2 *)
ToVolume(x, area) == [h \in DOMAIN x |-> x[h] * (in2m * area[h])]

(* the n values repeated over every layer of the array *)
SetSlice_AllLayers(a, n, v) == [i \in DOMAIN a |-> v[((i - 1) % n) + 1]]

(* the slice taken from the second entry on: a[1:n] = v[1:] *)
SetSlice_SkipFirst(a, n, v) ==
    [i \in DOMAIN a |-> IF 1 < i /\ i <= n THEN v[i] ELSE a[i]]

(* a[:n] = v : the first n entries are replaced, the others kept *)
SetSlice(a, n, v) == [i \in DOMAIN a |-> IF i <= n THEN v[i] ELSE a[i]]

(* a[istep, :] = v *)
SetRow(a, k, v) == [i \in DOMAIN a |-> IF i = k + 1 THEN v ELSE a[i]]

----------------------------------------------------------------------------
(* Exceptions and call-order tokens *)

NoError == [type |-> "none", origin |-> "none", step |-> NoStep]

(* An exception raised inside a simulator call: its traceback names the    *)
(* call; no statement of the loop attaches istep to it.                    *)
SimulatorError(origin) ==
    [type |-> "SimulatorError", origin |-> origin, step |-> NoStep]

(* except: raise RuntimeError -- a bare RuntimeError without arguments,    *)
(* chained to the exception being handled.                                 *)
BareRuntimeError(origin) ==
    [type |-> "RuntimeError", origin |-> origin, step |-> NoStep]

FinalizeName(sim) == IF sim = "mf6" THEN "mf6.finalize" ELSE "prms.finalize"

(* A token: the call or statement, the iteration it belongs to, whether it *)
(* returned, and the value it computed, stored or observed (<<>>: none).   *)
TokV(op, arg, step, ok, val) ==
    [op |-> op, arg |-> arg, step |-> step, ok |-> ok, val |-> val]

Tok(op, arg, step, ok) == TokV(op, arg, step, ok, <<>>)

Calls(op, arg) == {i \in DOMAIN log : log[i].op = op /\ log[i].arg = arg}

CallsAt(op, arg, k) == {i \in Calls(op, arg) : log[i].step = k}

OkCalls(op, arg) == {i \in Calls(op, arg) : log[i].ok}

FailedCalls == {i \in DOMAIN log : ~log[i].ok}

----------------------------------------------------------------------------
(* Configuration and initial state *)

(* weights["uzfw"], shape (nuzf_infilt, nhru); weights["sfrw"], (nsfr, nhru) *)
UzfWeights == [t \in 1..NUzf |-> [s \in HRUs |-> IF t = s THEN 1 ELSE 0]]
SfrWeights == [t \in 1..NSfr |-> [s \in HRUs |-> IF s >= t THEN 1 ELSE 0]]
HruAreaM2 == [h \in HRUs |-> h]

nuzf_infilt == Len(uzfw)

(* The value MF6 holds in a slot before the loop writes it *)
Mf6Maintained == 0 - 1

NoProbe == [kind |-> "none"]

DiagNames ==
    {"hru_ppt_out", "actet_out", "unused_potet_out", "prms_infil_out",
     "runoff_out", "interflow_out"}

Init ==
    /\ pc = "uninit"
    /\ istep = NoStep
    /\ control_n_times \in 0..MaxSteps
    /\ ntimes = 0
    /\ n_time_steps = 0
    /\ current_time = 0
    /\ mf6_current_time = 0
    /\ mf6_end_time \in 0..MaxSteps
    /\ prms = [f \in FieldNames |-> ZeroVec]
    /\ loc = [prms_infil |-> ZeroVec, uzf_recharge |-> ZeroVec, prms_ro |-> ZeroVec]
    /\ prms_var_dict = [time_out |-> <<>>, hru_ppt_out |-> <<>>, actet_out |-> <<>>,
                        unused_potet_out |-> <<>>, prms_infil_out |-> <<>>,
                        runoff_out |-> <<>>, interflow_out |-> <<>>]
    /\ mf6_vars = [SINF |-> [i \in 1..(NLay * NUzf) |-> Mf6Maintained],
                   PET |-> [i \in 1..(NLay * NUzf) |-> Mf6Maintained],
                   RUNOFF |-> [i \in 1..NSfr |-> Mf6Maintained]]
    /\ sfrw = SfrWeights
    /\ uzfw = UzfWeights
    /\ hru_area_m2 = HruAreaM2
    /\ success = FALSE
    /\ error = NoError
    /\ exported = {}
    /\ log = <<>>
    /\ prms_forcing = <<>>
    /\ probe = NoProbe

----------------------------------------------------------------------------
(* Set-up cells: pre-allocation of the custom output, mf6.initialize, and   *)
(* the pointers into MF6.  np.empty leaves time_out uninitialized           *)
(* (EmptyTime marks an entry never assigned); np.zeros fills the rest.      *)

NewVarDict(n, nhru) ==
    [v \in DiagNames \cup {"time_out"} |->
       IF v = "time_out"
       THEN [k \in 1..n |-> EmptyTime]
       ELSE [k \in 1..n |-> [h \in 1..nhru |-> 0]]]

Setup ==
    /\ pc = "uninit"
    /\ ntimes' = control_n_times
    /\ prms_var_dict' = NewVarDict(control_n_times, Len(hru_area_m2))
    /\ pc' = "ready"
    /\ UNCHANGED <<prms_forcing, probe>>
    /\ UNCHANGED <<istep, control_n_times, n_time_steps, current_time,
                   mf6_current_time, mf6_end_time, prms, loc, mf6_vars, sfrw,
                   uzfw, hru_area_m2, success, error, exported, log>>

(* the MF6 arrays cleared before the loop is entered *)
LoopStart_InitSlots ==
    /\ pc = "ready"
    /\ n_time_steps' = control_n_times
    /\ mf6_vars' = [slot \in DOMAIN mf6_vars |->
                      [i \in DOMAIN mf6_vars[slot] |-> 0]]
    /\ pc' = "for"
    /\ UNCHANGED <<prms_forcing, probe>>
    /\ UNCHANGED <<istep, control_n_times, ntimes, current_time,
                   mf6_current_time, mf6_end_time, prms, loc, prms_var_dict,
                   sfrw, uzfw, hru_area_m2, success, error, exported, log>>

(* n_time_steps = control.n_times.  The MF6 end time has only been printed: *)
(* nothing compares it with n_time_steps.                                   *)
LoopStart ==
    /\ pc = "ready"
    /\ n_time_steps' = control_n_times
    /\ pc' = "for"
    /\ UNCHANGED <<prms_forcing, probe>>
    /\ UNCHANGED <<istep, control_n_times, ntimes, current_time,
                   mf6_current_time, mf6_end_time, prms, loc, prms_var_dict,
                   mf6_vars, sfrw, uzfw, hru_area_m2, success, error, exported,
                   log>>

(* Mutation of ForNext: the range is one short *)
ForNext_EarlyExit ==
    /\ pc = "for"
    /\ IF istep + 1 < n_time_steps - 1
       THEN /\ istep' = istep + 1
            /\ pc' = "advance"
       ELSE /\ pc' = "try"
            /\ UNCHANGED istep
    /\ UNCHANGED <<prms_forcing, probe>>
    /\ UNCHANGED <<control_n_times, ntimes, n_time_steps, current_time,
                   mf6_current_time, mf6_end_time, prms, loc, prms_var_dict,
                   mf6_vars, sfrw, uzfw, hru_area_m2, success, error, exported,
                   log>>

(* a loop that does not leave when the range is used up *)
ForNext_SpinAtEnd ==
    /\ pc = "for"
    /\ IF istep + 1 < n_time_steps
       THEN /\ istep' = istep + 1
            /\ pc' = "advance"
       ELSE UNCHANGED <<pc, istep>>
    /\ UNCHANGED <<prms_forcing, probe>>
    /\ UNCHANGED <<control_n_times, ntimes, n_time_steps, current_time,
                   mf6_current_time, mf6_end_time, prms, loc, prms_var_dict,
                   mf6_vars, sfrw, uzfw, hru_area_m2, success, error, exported,
                   log>>

(* a loop that tests the range after the body: the body runs once even   *)
(* for an empty range                                                      *)
ForNext_DoWhile ==
    /\ pc = "for"
    /\ IF istep + 1 < n_time_steps \/ istep = NoStep
       THEN /\ istep' = istep + 1
            /\ pc' = "advance"
       ELSE /\ pc' = "try"
            /\ UNCHANGED istep
    /\ UNCHANGED <<prms_forcing, probe>>
    /\ UNCHANGED <<control_n_times, ntimes, n_time_steps, current_time,
                   mf6_current_time, mf6_end_time, prms, loc, prms_var_dict,
                   mf6_vars, sfrw, uzfw, hru_area_m2, success, error, exported,
                   log>>

(* for istep in range(n_time_steps) *)
ForNext ==
    /\ pc = "for"
    /\ IF istep + 1 < n_time_steps
       THEN /\ istep' = istep + 1
            /\ pc' = "advance"
       ELSE /\ pc' = "try"
            /\ UNCHANGED istep
    /\ UNCHANGED <<prms_forcing, probe>>
    /\ UNCHANGED <<control_n_times, ntimes, n_time_steps, current_time,
                   mf6_current_time, mf6_end_time, prms, loc, prms_var_dict,
                   mf6_vars, sfrw, uzfw, hru_area_m2, success, error, exported,
                   log>>

(* a failed advance tried once more before the exception is let through *)
Advance_RetryOnce ==
    /\ pc = "advance"
    /\ \E ok \in BOOLEAN :
         /\ log' = Append(log, Tok("advance", "prms", istep, ok))
         /\ IF ok
            THEN /\ current_time' = current_time + 1
                 /\ pc' = "calculate"
                 /\ UNCHANGED error
            ELSE /\ IF FailedCalls = {}
                    THEN pc' = "advance" /\ UNCHANGED error
                    ELSE pc' = "raised" /\ error' = SimulatorError("advance")
                 /\ UNCHANGED current_time
    /\ UNCHANGED <<prms_forcing, probe>>
    /\ UNCHANGED <<istep, control_n_times, ntimes, n_time_steps,
                   mf6_current_time, mf6_end_time, prms, loc, prms_var_dict,
                   mf6_vars, sfrw, uzfw, hru_area_m2, success, exported>>

(* prms_model.advance() *)
Advance ==
    /\ pc = "advance"
    /\ \E ok \in BOOLEAN :
         /\ log' = Append(log, Tok("advance", "prms", istep, ok))
         /\ IF ok
            THEN /\ current_time' = current_time + 1
                 /\ pc' = "calculate"
                 /\ UNCHANGED error
            ELSE /\ pc' = "raised"
                 /\ error' = SimulatorError("advance")
                 /\ UNCHANGED current_time
    /\ UNCHANGED <<prms_forcing, probe>>
    /\ UNCHANGED <<istep, control_n_times, ntimes, n_time_steps,
                   mf6_current_time, mf6_end_time, prms, loc, prms_var_dict,
                   mf6_vars, sfrw, uzfw, hru_area_m2, success, exported>>

(* prms_model.calculate(): the processes compute this step's fields *)
Calculate ==
    /\ pc = "calculate"
    /\ \E ok \in BOOLEAN :
         /\ IF ok
            THEN /\ IF prms_forcing = <<>>
                    THEN \E p \in 0..MaxProfile :
                           prms' = [f \in FieldNames |->
                                      [h \in HRUs |-> FieldValue(f, h, p)]]
                    ELSE prms' = prms_forcing[istep + 1]
                 /\ log' = Append(log, TokV("calculate", "prms", istep, TRUE, prms'))
                 /\ pc' = "output"
                 /\ UNCHANGED error
            ELSE /\ log' = Append(log, Tok("calculate", "prms", istep, FALSE))
                 /\ pc' = "raised"
                 /\ error' = SimulatorError("calculate")
                 /\ UNCHANGED prms
    /\ UNCHANGED <<prms_forcing, probe>>
    /\ UNCHANGED <<istep, control_n_times, ntimes, n_time_steps, current_time,
                   mf6_current_time, mf6_end_time, loc, prms_var_dict,
                   mf6_vars, sfrw, uzfw, hru_area_m2, success, exported>>

(* prms_model.output(): pws_write_output is False and initialize_netcdf was *)
(* not called, so the call does nothing.                                    *)
Output ==
    /\ pc = "output"
    /\ log' = Append(log, Tok("output", "prms", istep, TRUE))
    /\ pc' = "diag_vars"
    /\ UNCHANGED <<prms_forcing, probe>>
    /\ UNCHANGED <<istep, control_n_times, ntimes, n_time_steps, current_time,
                   mf6_current_time, mf6_end_time, prms, loc, prms_var_dict,
                   mf6_vars, sfrw, uzfw, hru_area_m2, success, error, exported>>

(* the factor in2m folded into hru_area_m2 in place (hru_area_m2 *= in2m) *)
DiagVars_ScaleArea ==
    /\ pc = "diag_vars"
    /\ prms' = [prms EXCEPT
                  !.hru_ppt = ToVolume(prms.hru_ppt, hru_area_m2),
                  !.hru_actet = ToVolume(prms.hru_actet, hru_area_m2)]
    /\ loc' = [loc EXCEPT
                 !.prms_infil =
                    ToVolume(VecAdd(prms.ssres_in, prms.pref_flow_infil),
                             hru_area_m2)]
    /\ log' = log \o
         << Tok("extract", "hru_ppt", istep, TRUE),
            Tok("convert", "hru_ppt", istep, TRUE),
            Tok("extract", "ssres_in", istep, TRUE),
            Tok("extract", "pref_flow_infil", istep, TRUE),
            Tok("convert", "prms_infil", istep, TRUE),
            Tok("extract", "hru_actet", istep, TRUE),
            Tok("convert", "actet", istep, TRUE) >>
    /\ hru_area_m2' = [h \in DOMAIN hru_area_m2 |-> in2m * hru_area_m2[h]]
    /\ pc' = "coupling_vars"
    /\ UNCHANGED <<prms_forcing, probe>>
    /\ UNCHANGED <<istep, control_n_times, ntimes, n_time_steps, current_time,
                   mf6_current_time, mf6_end_time, prms_var_dict, mf6_vars,
                   sfrw, uzfw, success, error, exported>>

(* hru_ppt, prms_infil, actet: variables kept for output only.  hru_ppt and *)
(* actet name the simulator's own arrays, so *= rescales them in place;     *)
(* prms_infil is a new array holding the sum.                               *)
DiagVars ==
    /\ pc = "diag_vars"
    /\ prms' = [prms EXCEPT
                  !.hru_ppt = ToVolume(prms.hru_ppt, hru_area_m2),
                  !.hru_actet = ToVolume(prms.hru_actet, hru_area_m2)]
    /\ loc' = [loc EXCEPT
                 !.prms_infil =
                    ToVolume(VecAdd(prms.ssres_in, prms.pref_flow_infil),
                             hru_area_m2)]
    /\ log' = log \o
         << Tok("extract", "hru_ppt", istep, TRUE),
            Tok("convert", "hru_ppt", istep, TRUE),
            Tok("extract", "ssres_in", istep, TRUE),
            Tok("extract", "pref_flow_infil", istep, TRUE),
            Tok("convert", "prms_infil", istep, TRUE),
            Tok("extract", "hru_actet", istep, TRUE),
            Tok("convert", "actet", istep, TRUE) >>
    /\ pc' = "coupling_vars"
    /\ UNCHANGED <<prms_forcing, probe>>
    /\ UNCHANGED <<istep, control_n_times, ntimes, n_time_steps, current_time,
                   mf6_current_time, mf6_end_time, prms_var_dict, mf6_vars,
                   sfrw, uzfw, hru_area_m2, success, error, exported>>

(* prms_ro summed without slow_flow *)
CouplingVars_NoSlowFlow ==
    /\ pc = "coupling_vars"
    /\ prms' = [prms EXCEPT
                  !.unused_potet = ToVolume(prms.unused_potet, hru_area_m2),
                  !.hru_horton_cascflow =
                      ToVolume(prms.hru_horton_cascflow, hru_area_m2),
                  !.dunnian_flow = ToVolume(prms.dunnian_flow, hru_area_m2),
                  !.pref_flow = ToVolume(prms.pref_flow, hru_area_m2),
                  !.slow_flow = ToVolume(prms.slow_flow, hru_area_m2)]
    /\ loc' = [loc EXCEPT
                 !.uzf_recharge =
                    ToVolume(VecAdd(prms.ssr_to_gw, prms.soil_to_gw),
                             hru_area_m2),
                 !.prms_ro =
                    VecAdd(VecAdd(prms'.hru_horton_cascflow,
                                  prms'.dunnian_flow),
                           prms'.pref_flow)]
    /\ log' = log \o
         << Tok("extract", "unused_potet", istep, TRUE),
            Tok("convert", "unused_potet", istep, TRUE),
            Tok("extract", "ssr_to_gw", istep, TRUE),
            Tok("extract", "soil_to_gw", istep, TRUE),
            Tok("convert", "uzf_recharge", istep, TRUE),
            Tok("extract", "hru_horton_cascflow", istep, TRUE),
            Tok("convert", "hortonian", istep, TRUE),
            Tok("extract", "dunnian_flow", istep, TRUE),
            Tok("convert", "dunnian", istep, TRUE),
            Tok("extract", "pref_flow", istep, TRUE),
            Tok("convert", "pref_flow", istep, TRUE),
            Tok("extract", "slow_flow", istep, TRUE),
            Tok("convert", "slow_flow", istep, TRUE) >>
    /\ pc' = "save"
    /\ UNCHANGED <<prms_forcing, probe>>
    /\ UNCHANGED <<istep, control_n_times, ntimes, n_time_steps, current_time,
                   mf6_current_time, mf6_end_time, prms_var_dict, mf6_vars,
                   sfrw, uzfw, hru_area_m2, success, error, exported>>

(* coupling variables: unused_potet, uzf_recharge, hortonian, dunnian,      *)
(* pref_flow, slow_flow and their sum prms_ro.  uzf_recharge and prms_ro    *)
(* are new arrays; the others are the simulator's arrays, rescaled in place *)
CouplingVars ==
    /\ pc = "coupling_vars"
    /\ prms' = [prms EXCEPT
                  !.unused_potet = ToVolume(prms.unused_potet, hru_area_m2),
                  !.hru_horton_cascflow =
                      ToVolume(prms.hru_horton_cascflow, hru_area_m2),
                  !.dunnian_flow = ToVolume(prms.dunnian_flow, hru_area_m2),
                  !.pref_flow = ToVolume(prms.pref_flow, hru_area_m2),
                  !.slow_flow = ToVolume(prms.slow_flow, hru_area_m2)]
    /\ loc' = [loc EXCEPT
                 !.uzf_recharge =
                    ToVolume(VecAdd(prms.ssr_to_gw, prms.soil_to_gw),
                             hru_area_m2),
                 !.prms_ro =
                    VecAdd(VecAdd(VecAdd(prms'.hru_horton_cascflow,
                                         prms'.dunnian_flow),
                                  prms'.pref_flow),
                           prms'.slow_flow)]
    /\ log' = log \o
         << Tok("extract", "unused_potet", istep, TRUE),
            Tok("convert", "unused_potet", istep, TRUE),
            Tok("extract", "ssr_to_gw", istep, TRUE),
            Tok("extract", "soil_to_gw", istep, TRUE),
            Tok("convert", "uzf_recharge", istep, TRUE),
            Tok("extract", "hru_horton_cascflow", istep, TRUE),
            Tok("convert", "hortonian", istep, TRUE),
            Tok("extract", "dunnian_flow", istep, TRUE),
            Tok("convert", "dunnian", istep, TRUE),
            Tok("extract", "pref_flow", istep, TRUE),
            Tok("convert", "pref_flow", istep, TRUE),
            Tok("extract", "slow_flow", istep, TRUE),
            Tok("convert", "slow_flow", istep, TRUE) >>
    /\ pc' = "save"
    /\ UNCHANGED <<prms_forcing, probe>>
    /\ UNCHANGED <<istep, control_n_times, ntimes, n_time_steps, current_time,
                   mf6_current_time, mf6_end_time, prms_var_dict, mf6_vars,
                   sfrw, uzfw, hru_area_m2, success, error, exported>>

(* interflow_out saved from pref_flow alone *)
DiagRows_NoSlowFlow ==
    [hru_ppt_out |-> prms.hru_ppt,
     unused_potet_out |-> prms.unused_potet,
     actet_out |-> prms.hru_actet,
     prms_infil_out |-> loc.prms_infil,
     runoff_out |-> VecAdd(prms.hru_horton_cascflow, prms.dunnian_flow),
     interflow_out |-> prms.pref_flow]

(* The rows the loop saves in an iteration *)
DiagRows ==
    [hru_ppt_out |-> prms.hru_ppt,
     unused_potet_out |-> prms.unused_potet,
     actet_out |-> prms.hru_actet,
     prms_infil_out |-> loc.prms_infil,
     runoff_out |-> VecAdd(prms.hru_horton_cascflow, prms.dunnian_flow),
     interflow_out |-> VecAdd(prms.pref_flow, prms.slow_flow)]

(* the stores made into row k and every row after it: a[k:] = v *)
StoreResults_Tail(dict, k, t, rows) ==
    IF k >= Len(dict.time_out)
    THEN [ok |-> FALSE, dict |-> dict]
    ELSE [ok |-> TRUE,
          dict |-> [v \in DOMAIN dict |->
                      [i \in DOMAIN dict[v] |->
                         IF i < k + 1 THEN dict[v][i]
                         ELSE IF v = "time_out" THEN t ELSE rows[v]]]]

(* the stores without the bound of the arrays *)
StoreResults_Unchecked(dict, k, t, rows) ==
    [ok |-> TRUE,
     dict |-> [v \in DOMAIN dict |->
                 IF v = "time_out" THEN SetRow(dict[v], k, t)
                 ELSE SetRow(dict[v], k, rows[v])]]

(* prms_var_dict[...][k] = ...: numpy raises IndexError for an index k at  *)
(* or beyond the length of the first axis; the first store, into time_out, *)
(* raises before anything is stored.  (k is never negative here.)          *)
StoreResults(dict, k, t, rows) ==
    IF k >= Len(dict.time_out)
    THEN [ok |-> FALSE, dict |-> dict]
    ELSE [ok |-> TRUE,
          dict |-> [v \in DOMAIN dict |->
                      IF v = "time_out" THEN SetRow(dict[v], k, t)
                      ELSE SetRow(dict[v], k, rows[v])]]

IndexError == [type |-> "IndexError", origin |-> "record", step |-> NoStep]

(* the stores made one row further than the step index *)
SaveResults_NextRow ==
    /\ pc = "save"
    /\ LET r == StoreResults(prms_var_dict, istep + 1, current_time, DiagRows) IN
         /\ prms_var_dict' = r.dict
         /\ log' = Append(log, TokV("record", "prms_var_dict", istep, r.ok,
                                    [time |-> current_time, rows |-> DiagRows]))
         /\ IF r.ok
            THEN /\ pc' = "set_ptrs"
                 /\ UNCHANGED error
            ELSE /\ pc' = "raised"
                 /\ error' = IndexError
    /\ UNCHANGED <<prms_forcing, probe>>
    /\ UNCHANGED <<istep, control_n_times, ntimes, n_time_steps, current_time,
                   mf6_current_time, mf6_end_time, prms, loc, mf6_vars, sfrw,
                   uzfw, hru_area_m2, success, exported>>

(* save PRMS results (converted to m3(/d)) *)
SaveResults ==
    /\ pc = "save"
    /\ LET r == StoreResults(prms_var_dict, istep, current_time, DiagRows) IN
         /\ prms_var_dict' = r.dict
         /\ log' = Append(log, TokV("record", "prms_var_dict", istep, r.ok,
                                    [time |-> current_time, rows |-> DiagRows]))
         /\ IF r.ok
            THEN /\ pc' = "set_ptrs"
                 /\ UNCHANGED error
            ELSE /\ pc' = "raised"
                 /\ error' = IndexError
    /\ UNCHANGED <<prms_forcing, probe>>
    /\ UNCHANGED <<istep, control_n_times, ntimes, n_time_steps, current_time,
                   mf6_current_time, mf6_end_time, prms, loc, mf6_vars, sfrw,
                   uzfw, hru_area_m2, success, exported>>

(* Mutation of SetPointers: the PET slot is not set *)
SetPointers_NoPET ==
    /\ pc = "set_ptrs"
    /\ mf6_vars' =
         [RUNOFF |-> SetSlice(mf6_vars.RUNOFF, Len(mf6_vars.RUNOFF),
                              hru2mf6(sfrw, loc.prms_ro)),
          SINF |-> SetSlice(mf6_vars.SINF, nuzf_infilt,
                            hru2mf6(uzfw, loc.uzf_recharge)),
          PET |-> mf6_vars.PET]
    /\ log' = log \o
         << Tok("remap", "RUNOFF", istep, TRUE),
            TokV("write", "RUNOFF", istep, TRUE, mf6_vars'.RUNOFF),
            Tok("remap", "SINF", istep, TRUE),
            TokV("write", "SINF", istep, TRUE, mf6_vars'.SINF) >>
    /\ pc' = "update"
    /\ UNCHANGED <<prms_forcing, probe>>
    /\ UNCHANGED <<istep, control_n_times, ntimes, n_time_steps, current_time,
                   mf6_current_time, mf6_end_time, prms, loc, prms_var_dict,
                   sfrw, uzfw, hru_area_m2, success, error, exported>>

(* weights.dot(values) needs as many columns as values has entries; numpy *)
(* raises ValueError otherwise.                                            *)
ColsMatch(weights, values) ==
    \A t \in DOMAIN weights : Len(weights[t]) = Len(values)

ShapeError == [type |-> "ValueError", origin |-> "hru2mf6", step |-> NoStep]

(* the PET array set from uzf_recharge instead of unused_potet *)
SetPointers_PETFromRecharge ==
    /\ pc = "set_ptrs"
    /\ IF ColsMatch(sfrw, loc.prms_ro) /\ ColsMatch(uzfw, loc.uzf_recharge)
       THEN /\ mf6_vars' =
                 [RUNOFF |-> SetSlice(mf6_vars.RUNOFF, Len(mf6_vars.RUNOFF),
                                      hru2mf6(sfrw, loc.prms_ro)),
                  SINF |-> SetSlice(mf6_vars.SINF, nuzf_infilt,
                                    hru2mf6(uzfw, loc.uzf_recharge)),
                  PET |-> SetSlice(mf6_vars.PET, nuzf_infilt,
                                   hru2mf6(uzfw, loc.uzf_recharge))]
            /\ log' = log \o
                 << Tok("remap", "RUNOFF", istep, TRUE),
                    TokV("write", "RUNOFF", istep, TRUE, mf6_vars'.RUNOFF),
                    Tok("remap", "SINF", istep, TRUE),
                    TokV("write", "SINF", istep, TRUE, mf6_vars'.SINF),
                    Tok("remap", "PET", istep, TRUE),
                    TokV("write", "PET", istep, TRUE, mf6_vars'.PET) >>
            /\ pc' = "update"
            /\ UNCHANGED error
       ELSE /\ IF ColsMatch(sfrw, loc.prms_ro)
               THEN /\ mf6_vars' =
                         [mf6_vars EXCEPT
                            !.RUNOFF = SetSlice(mf6_vars.RUNOFF,
                                                Len(mf6_vars.RUNOFF),
                                                hru2mf6(sfrw, loc.prms_ro))]
                    /\ log' = log \o
                         << Tok("remap", "RUNOFF", istep, TRUE),
                            TokV("write", "RUNOFF", istep, TRUE, mf6_vars'.RUNOFF),
                            Tok("remap", "SINF", istep, FALSE) >>
               ELSE /\ UNCHANGED mf6_vars
                    /\ log' = Append(log, Tok("remap", "RUNOFF", istep, FALSE))
            /\ pc' = "raised"
            /\ error' = ShapeError
    /\ UNCHANGED <<prms_forcing, probe>>
    /\ UNCHANGED <<istep, control_n_times, ntimes, n_time_steps, current_time,
                   mf6_current_time, mf6_end_time, prms, loc, prms_var_dict,
                   sfrw, uzfw, hru_area_m2, success, exported>>

(* Set MF6 pointers.  The three assignments run in order: a ValueError of  *)
(* hru2mf6 leaves the assignments before it done and the others undone.    *)
SetPointers ==
    /\ pc = "set_ptrs"
    /\ IF ColsMatch(sfrw, loc.prms_ro) /\ ColsMatch(uzfw, loc.uzf_recharge)
       THEN /\ mf6_vars' =
                 [RUNOFF |-> SetSlice(mf6_vars.RUNOFF, Len(mf6_vars.RUNOFF),
                                      hru2mf6(sfrw, loc.prms_ro)),
                  SINF |-> SetSlice(mf6_vars.SINF, nuzf_infilt,
                                    hru2mf6(uzfw, loc.uzf_recharge)),
                  PET |-> SetSlice(mf6_vars.PET, nuzf_infilt,
                                   hru2mf6(uzfw, prms.unused_potet))]
            /\ log' = log \o
                 << Tok("remap", "RUNOFF", istep, TRUE),
                    TokV("write", "RUNOFF", istep, TRUE, mf6_vars'.RUNOFF),
                    Tok("remap", "SINF", istep, TRUE),
                    TokV("write", "SINF", istep, TRUE, mf6_vars'.SINF),
                    Tok("remap", "PET", istep, TRUE),
                    TokV("write", "PET", istep, TRUE, mf6_vars'.PET) >>
            /\ pc' = "update"
            /\ UNCHANGED error
       ELSE /\ IF ColsMatch(sfrw, loc.prms_ro)
               THEN /\ mf6_vars' =
                         [mf6_vars EXCEPT
                            !.RUNOFF = SetSlice(mf6_vars.RUNOFF,
                                                Len(mf6_vars.RUNOFF),
                                                hru2mf6(sfrw, loc.prms_ro))]
                    /\ log' = log \o
                         << Tok("remap", "RUNOFF", istep, TRUE),
                            TokV("write", "RUNOFF", istep, TRUE, mf6_vars'.RUNOFF),
                            Tok("remap", "SINF", istep, FALSE) >>
               ELSE /\ UNCHANGED mf6_vars
                    /\ log' = Append(log, Tok("remap", "RUNOFF", istep, FALSE))
            /\ pc' = "raised"
            /\ error' = ShapeError
    /\ UNCHANGED <<prms_forcing, probe>>
    /\ UNCHANGED <<istep, control_n_times, ntimes, n_time_steps, current_time,
                   mf6_current_time, mf6_end_time, prms, loc, prms_var_dict,
                   sfrw, uzfw, hru_area_m2, success, exported>>

(* Mutation of Update: an exception of mf6.update() is caught and the loop *)
(* goes on                                                                 *)
Update_ContinueOnError ==
    /\ pc = "update"
    /\ \E ok \in BOOLEAN :
         /\ log' = Append(log, TokV("update", "mf6", istep, ok, mf6_vars))
         /\ mf6_current_time' = IF ok THEN mf6_current_time + 1
                                      ELSE mf6_current_time
         /\ pc' = "for"
    /\ UNCHANGED <<prms_forcing, probe>>
    /\ UNCHANGED <<istep, control_n_times, ntimes, n_time_steps, current_time,
                   mf6_end_time, prms, loc, prms_var_dict, mf6_vars, sfrw,
                   uzfw, hru_area_m2, success, error, exported>>

(* run MODFLOW 6: mf6.update() *)
Update ==
    /\ pc = "update"
    /\ \E ok \in BOOLEAN :
         /\ log' = Append(log, TokV("update", "mf6", istep, ok, mf6_vars))
         /\ IF ok
            THEN /\ mf6_current_time' = mf6_current_time + 1
                 /\ pc' = "for"
                 /\ UNCHANGED error
            ELSE /\ pc' = "raised"
                 /\ error' = SimulatorError("update")
                 /\ UNCHANGED mf6_current_time
    /\ UNCHANGED <<prms_forcing, probe>>
    /\ UNCHANGED <<istep, control_n_times, ntimes, n_time_steps, current_time,
                   mf6_end_time, prms, loc, prms_var_dict, mf6_vars, sfrw,
                   uzfw, hru_area_m2, success, exported>>

(* Mutation of FinalizeMf6: the try block sits inside the loop body *)
FinalizeMf6_InsideLoop ==
    /\ pc \in {"try", "for"}
    /\ \E ok \in BOOLEAN :
         /\ log' = Append(log, Tok("finalize", "mf6", NoStep, ok))
         /\ IF ok
            THEN /\ pc' = "fin_prms"
                 /\ UNCHANGED error
            ELSE /\ pc' = "raised"
                 /\ error' = BareRuntimeError(FinalizeName("mf6"))
    /\ UNCHANGED <<prms_forcing, probe>>
    /\ UNCHANGED <<istep, control_n_times, ntimes, n_time_steps, current_time,
                   mf6_current_time, mf6_end_time, prms, loc, prms_var_dict,
                   mf6_vars, sfrw, uzfw, hru_area_m2, success, exported>>

(* try: mf6.finalize() ... except: raise RuntimeError *)
FinalizeMf6 ==
    /\ pc = "try"
    /\ \E ok \in BOOLEAN :
         /\ log' = Append(log, Tok("finalize", "mf6", NoStep, ok))
         /\ IF ok
            THEN /\ pc' = "fin_prms"
                 /\ UNCHANGED error
            ELSE /\ pc' = "raised"
                 /\ error' = BareRuntimeError(FinalizeName("mf6"))
    /\ UNCHANGED <<prms_forcing, probe>>
    /\ UNCHANGED <<istep, control_n_times, ntimes, n_time_steps, current_time,
                   mf6_current_time, mf6_end_time, prms, loc, prms_var_dict,
                   mf6_vars, sfrw, uzfw, hru_area_m2, success, exported>>

(* Mutation of FinalizePrms: except: pass *)
FinalizePrms_Swallow ==
    /\ pc = "fin_prms"
    /\ \E ok \in BOOLEAN :
         /\ log' = Append(log, Tok("finalize", "prms", NoStep, ok))
         /\ success' = IF ok THEN TRUE ELSE success
         /\ pc' = "done"
    /\ UNCHANGED <<prms_forcing, probe>>
    /\ UNCHANGED <<istep, control_n_times, ntimes, n_time_steps, current_time,
                   mf6_current_time, mf6_end_time, prms, loc, prms_var_dict,
                   mf6_vars, sfrw, uzfw, hru_area_m2, error, exported>>

(* prms_model.finalize(); success = True ... except: raise RuntimeError *)
FinalizePrms ==
    /\ pc = "fin_prms"
    /\ \E ok \in BOOLEAN :
         /\ log' = Append(log, Tok("finalize", "prms", NoStep, ok))
         /\ IF ok
            THEN /\ success' = TRUE
                 /\ pc' = "done"
                 /\ UNCHANGED error
            ELSE /\ pc' = "raised"
                 /\ error' = BareRuntimeError(FinalizeName("prms"))
                 /\ UNCHANGED success
    /\ UNCHANGED <<prms_forcing, probe>>
    /\ UNCHANGED <<istep, control_n_times, ntimes, n_time_steps, current_time,
                   mf6_current_time, mf6_end_time, prms, loc, prms_var_dict,
                   mf6_vars, sfrw, uzfw, hru_area_m2, exported>>

(* var = prms_var[0:-4] *)
StripOut(v) ==
    CASE v = "hru_ppt_out" -> "hru_ppt"
      [] v = "actet_out" -> "actet"
      [] v = "unused_potet_out" -> "unused_potet"
      [] v = "prms_infil_out" -> "prms_infil"
      [] v = "runoff_out" -> "runoff"
      [] v = "interflow_out" -> "interflow"

(* .astype("datetime64[ns]"): the same instant counted in nanoseconds; the *)
(* count itself is not modelled, the instant and the unit are.             *)
AsTypeNs(t) == [instant |-> t, unit |-> "ns"]

(* the datasets written with the steps in reverse order *)
Export_Reversed ==
    /\ pc \in {"done", "raised"}
    /\ exported = {}
    /\ \E g \in 0..MaxSteps :
         exported' =
           {[var |-> StripOut(v),
             time |-> [k \in DOMAIN prms_var_dict.time_out |->
                         AsTypeNs(IF prms_var_dict.time_out[k] = EmptyTime
                                  THEN g ELSE prms_var_dict.time_out[k])],
             data |-> [k \in DOMAIN prms_var_dict[v] |->
                         prms_var_dict[v][Len(prms_var_dict[v]) + 1 - k]]] :
              v \in DiagNames}
    /\ UNCHANGED <<prms_forcing, probe>>
    /\ UNCHANGED <<pc, istep, control_n_times, ntimes, n_time_steps,
                   current_time, mf6_current_time, mf6_end_time, prms, loc,
                   prms_var_dict, mf6_vars, sfrw, uzfw, hru_area_m2, success,
                   error, log>>

(* Save custom pywatershed output to NetCDF: one dataset per variable.  The *)
(* cell tests neither success nor the way the loop cell ended.  An entry of *)
(* time_out that was never assigned reads as whatever np.empty left there.  *)
Export ==
    /\ pc \in {"done", "raised"}
    /\ exported = {}
    /\ \E g \in 0..MaxSteps :
         exported' =
           {[var |-> StripOut(v),
             time |-> [k \in DOMAIN prms_var_dict.time_out |->
                         AsTypeNs(IF prms_var_dict.time_out[k] = EmptyTime
                                  THEN g ELSE prms_var_dict.time_out[k])],
             data |-> prms_var_dict[v]] : v \in DiagNames}
    /\ UNCHANGED <<prms_forcing, probe>>
    /\ UNCHANGED <<pc, istep, control_n_times, ntimes, n_time_steps,
                   current_time, mf6_current_time, mf6_end_time, prms, loc,
                   prms_var_dict, mf6_vars, sfrw, uzfw, hru_area_m2, success,
                   error, log>>

----------------------------------------------------------------------------
(* The functions of the notebook taken alone: hru2mf6, the unit conversion  *)
(* and the store into the custom output, each applied once to arguments     *)
(* drawn from bounded sets.                                                 *)

Depths == 0..MaxProfile

Vectors == [HRUs -> Depths]

Matrices == UNION {[1..T -> [HRUs -> {0, 1}]] : T \in 1..NUzf}

Areas == [HRUs -> {1, 2}]

RemapInputs == {[R |-> R, v |-> v] : R \in Matrices, v \in Vectors}

ConvertInputs ==
    {[d1 |-> d1, d2 |-> [h \in HRUs |-> e], area |-> a, c |-> c] :
        d1 \in Vectors, e \in Depths, a \in Areas, c \in {0, 2, 3}}

RecordInputs ==
    {[n |-> n, k |-> k, t |-> t, p |-> p] :
        n \in 0..MaxSteps, k \in 0..(MaxSteps + 1), t \in {1, 2},
        p \in 1..MaxProfile}

ProbeInputs ==
    {[kind |-> "remap", in |-> x, out |-> <<>>, done |-> FALSE] : x \in RemapInputs}
    \cup {[kind |-> "convert", in |-> x, out |-> <<>>, done |-> FALSE] :
             x \in ConvertInputs}
    \cup {[kind |-> "record", in |-> x, out |-> <<>>, done |-> FALSE] :
             x \in RecordInputs}

InitProbe ==
    /\ pc = "probe"
    /\ probe \in ProbeInputs
    /\ istep = NoStep
    /\ control_n_times = 0
    /\ ntimes = 0
    /\ n_time_steps = 0
    /\ current_time = 0
    /\ mf6_current_time = 0
    /\ mf6_end_time = 0
    /\ prms = [f \in FieldNames |-> ZeroVec]
    /\ loc = [prms_infil |-> ZeroVec, uzf_recharge |-> ZeroVec, prms_ro |-> ZeroVec]
    /\ prms_var_dict = [time_out |-> <<>>, hru_ppt_out |-> <<>>, actet_out |-> <<>>,
                        unused_potet_out |-> <<>>, prms_infil_out |-> <<>>,
                        runoff_out |-> <<>>, interflow_out |-> <<>>]
    /\ mf6_vars = [SINF |-> [i \in 1..(NLay * NUzf) |-> Mf6Maintained],
                   PET |-> [i \in 1..(NLay * NUzf) |-> Mf6Maintained],
                   RUNOFF |-> [i \in 1..NSfr |-> Mf6Maintained]]
    /\ sfrw = SfrWeights
    /\ uzfw = UzfWeights
    /\ hru_area_m2 = HruAreaM2
    /\ success = FALSE
    /\ error = NoError
    /\ exported = {}
    /\ log = <<>>
    /\ prms_forcing = <<>>

ProbeFrame ==
    UNCHANGED <<pc, istep, control_n_times, ntimes, n_time_steps, current_time,
                mf6_current_time, mf6_end_time, prms, loc, prms_var_dict,
                mf6_vars, sfrw, uzfw, hru_area_m2, success, error, exported,
                log, prms_forcing>>

Scaled(c, x) == [h \in DOMAIN x |-> c * x[h]]

(* hru2mf6(R, v) and hru2mf6(R, 0) *)
ProbeRemap ==
    /\ pc = "probe"
    /\ probe.kind = "remap"
    /\ ~probe.done
    /\ probe' = [probe EXCEPT
                   !.done = TRUE,
                   !.out = [rv |-> hru2mf6(probe.in.R, probe.in.v),
                            r0 |-> hru2mf6(probe.in.R, ZeroVec)]]
    /\ ProbeFrame

(* x *= in2m * area, for x = d1, d2, d1 + d2, c * d1 and 0, and for c * area *)
ProbeConvert ==
    /\ pc = "probe"
    /\ probe.kind = "convert"
    /\ ~probe.done
    /\ LET x == probe.in IN
         probe' = [probe EXCEPT
                     !.done = TRUE,
                     !.out = [a |-> ToVolume(x.d1, x.area),
                              b |-> ToVolume(x.d2, x.area),
                              sum |-> ToVolume(VecAdd(x.d1, x.d2), x.area),
                              scaled |-> ToVolume(Scaled(x.c, x.d1), x.area),
                              wider |-> ToVolume(x.d1, Scaled(x.c, x.area)),
                              zero |-> ToVolume(ZeroVec, x.area)]]
    /\ ProbeFrame

ProbeRows(p) == [v \in DiagNames |-> [h \in HRUs |-> p * h]]

(* the stores of one iteration into a custom output allocated for n steps *)
ProbeRecord ==
    /\ pc = "probe"
    /\ probe.kind = "record"
    /\ ~probe.done
    /\ LET x == probe.in IN
         probe' = [probe EXCEPT
                     !.done = TRUE,
                     !.out = StoreResults(NewVarDict(x.n, NHRU), x.k, x.t,
                                          ProbeRows(x.p))]
    /\ ProbeFrame

NextProbe == ProbeRemap \/ ProbeConvert \/ ProbeRecord

SpecProbe == InitProbe /\ [][NextProbe]_vars

Next ==
    \/ Setup
    \/ LoopStart
    \/ ForNext
    \/ Advance
    \/ Calculate
    \/ Output
    \/ DiagVars
    \/ CouplingVars
    \/ SaveResults
    \/ SetPointers
    \/ Update
    \/ FinalizeMf6
    \/ FinalizePrms
    \/ Export

Spec == Init /\ [][Next]_vars

(* The statements of the loop cell: once the cell is started the           *)
(* interpreter executes them one after the other, and every simulator call *)
(* returns or raises.                                                      *)
LoopCell ==
    \/ LoopStart
    \/ ForNext
    \/ Advance
    \/ Calculate
    \/ Output
    \/ DiagVars
    \/ CouplingVars
    \/ SaveResults
    \/ SetPointers
    \/ Update
    \/ FinalizeMf6
    \/ FinalizePrms

SpecFair == Init /\ [][Next]_vars /\ WF_vars(LoopCell)

(* A run on prescribed fields: three steps, identity weights for both      *)
(* packages, unit areas, and at step k (from 0) the value 2k + h in HRU h   *)
(* of one source field per MF6 array, zero in the other fields.             *)
ScenarioValues == [k \in 1..3 |-> [h \in HRUs |-> 2 * (k - 1) + h]]

ScenarioFed == {"unused_potet", "ssr_to_gw", "hru_horton_cascflow"}

ScenarioForcing ==
    [k \in DOMAIN ScenarioValues |->
       [f \in FieldNames |-> IF f \in ScenarioFed THEN ScenarioValues[k] ELSE ZeroVec]]

InitScenario ==
    /\ pc = "uninit"
    /\ istep = NoStep
    /\ control_n_times = Len(ScenarioValues)
    /\ ntimes = 0
    /\ n_time_steps = 0
    /\ current_time = 0
    /\ mf6_current_time = 0
    /\ mf6_end_time \in 0..MaxSteps
    /\ prms = [f \in FieldNames |-> ZeroVec]
    /\ loc = [prms_infil |-> ZeroVec, uzf_recharge |-> ZeroVec, prms_ro |-> ZeroVec]
    /\ prms_var_dict = [time_out |-> <<>>, hru_ppt_out |-> <<>>, actet_out |-> <<>>,
                        unused_potet_out |-> <<>>, prms_infil_out |-> <<>>,
                        runoff_out |-> <<>>, interflow_out |-> <<>>]
    /\ mf6_vars = [SINF |-> [i \in 1..(NLay * NUzf) |-> Mf6Maintained],
                   PET |-> [i \in 1..(NLay * NUzf) |-> Mf6Maintained],
                   RUNOFF |-> [i \in 1..NSfr |-> Mf6Maintained]]
    /\ sfrw = [t \in 1..NSfr |-> [s \in HRUs |-> IF t = s THEN 1 ELSE 0]]
    /\ uzfw = [t \in 1..NUzf |-> [s \in HRUs |-> IF t = s THEN 1 ELSE 0]]
    /\ hru_area_m2 = [h \in HRUs |-> 1]
    /\ success = FALSE
    /\ error = NoError
    /\ exported = {}
    /\ log = <<>>
    /\ prms_forcing = ScenarioForcing
    /\ probe = NoProbe

SpecScenario == InitScenario /\ [][Next]_vars

(* A run whose weight matrices may have been built for fewer HRUs than    *)
(* the pywatershed model has: sfrw and uzfw with or without their last     *)
(* column.                                                                 *)
Narrow(weights) ==
    [t \in DOMAIN weights |-> [s \in 1..(Len(weights[t]) - 1) |-> weights[t][s]]]

InitShapes ==
    /\ pc = "uninit"
    /\ istep = NoStep
    /\ control_n_times \in 0..MaxSteps
    /\ ntimes = 0
    /\ n_time_steps = 0
    /\ current_time = 0
    /\ mf6_current_time = 0
    /\ mf6_end_time = control_n_times
    /\ prms = [f \in FieldNames |-> ZeroVec]
    /\ loc = [prms_infil |-> ZeroVec, uzf_recharge |-> ZeroVec, prms_ro |-> ZeroVec]
    /\ prms_var_dict = [time_out |-> <<>>, hru_ppt_out |-> <<>>, actet_out |-> <<>>,
                        unused_potet_out |-> <<>>, prms_infil_out |-> <<>>,
                        runoff_out |-> <<>>, interflow_out |-> <<>>]
    /\ mf6_vars = [SINF |-> [i \in 1..(NLay * NUzf) |-> Mf6Maintained],
                   PET |-> [i \in 1..(NLay * NUzf) |-> Mf6Maintained],
                   RUNOFF |-> [i \in 1..NSfr |-> Mf6Maintained]]
    /\ sfrw \in {SfrWeights, Narrow(SfrWeights)}
    /\ uzfw \in {UzfWeights, Narrow(UzfWeights)}
    /\ hru_area_m2 = HruAreaM2
    /\ success = FALSE
    /\ error = NoError
    /\ exported = {}
    /\ log = <<>>
    /\ prms_forcing = <<>>
    /\ probe = NoProbe

SpecShapes == InitShapes /\ [][Next]_vars

(* The run together with the functions taken alone *)
SpecDiag == (Init \/ InitProbe) /\ [][Next \/ NextProbe]_vars

(* The state of the run in the terms of the coupling loop's life cycle *)
Lifecycle ==
    CASE pc = "uninit" -> "Uninitialized"
      [] pc = "ready" -> "Ready"
      [] pc \in {"for", "advance", "calculate", "output", "diag_vars",
                 "coupling_vars", "save", "set_ptrs", "update"} -> "Running"
      [] pc \in {"try", "fin_prms"} -> "Finalizing"
      [] pc = "done" -> "Terminated"
      [] pc = "raised" -> "Failed"

----------------------------------------------------------------------------
(* Reading the call-order tokens *)

N == control_n_times

Before(I, J) == \A i \in I : \A j \in J : i < j

Once(op, arg, k) == Cardinality(CallsAt(op, arg, k)) = 1

(* For each target slot: the simulator fields it is fed from, each with    *)
(* the loop variable that holds the field after unit conversion.           *)
SlotSources(slot) ==
    CASE slot = "RUNOFF" ->
           {<<"hru_horton_cascflow", "hortonian">>, <<"dunnian_flow", "dunnian">>,
            <<"pref_flow", "pref_flow">>, <<"slow_flow", "slow_flow">>}
      [] slot = "SINF" ->
           {<<"ssr_to_gw", "uzf_recharge">>, <<"soil_to_gw", "uzf_recharge">>}
      [] slot = "PET" -> {<<"unused_potet", "unused_potet">>}

Slots == {"RUNOFF", "SINF", "PET"}

UpdateInvoked(k) == CallsAt("update", "mf6", k) /= {}

PhasesInOrder(k) ==
    /\ Once("advance", "prms", k)
    /\ Once("calculate", "prms", k)
    /\ Once("output", "prms", k)
    /\ Once("update", "mf6", k)
    /\ Before(CallsAt("advance", "prms", k), CallsAt("calculate", "prms", k))
    /\ Before(CallsAt("calculate", "prms", k), CallsAt("output", "prms", k))
    /\ \A slot \in Slots :
         /\ Once("remap", slot, k)
         /\ Once("write", slot, k)
         /\ Before(CallsAt("remap", slot, k), CallsAt("write", slot, k))
         /\ Before(CallsAt("write", slot, k), CallsAt("update", "mf6", k))
         /\ \A fl \in SlotSources(slot) :
              /\ Once("extract", fl[1], k)
              /\ Once("convert", fl[2], k)
              /\ Before(CallsAt("output", "prms", k),
                        CallsAt("extract", fl[1], k))
              /\ Before(CallsAt("extract", fl[1], k),
                        CallsAt("convert", fl[2], k))
              /\ Before(CallsAt("convert", fl[2], k),
                        CallsAt("remap", slot, k))

StepsInOrder ==
    \A i, j \in DOMAIN log :
        (i < j /\ log[i].step /= NoStep /\ log[j].step /= NoStep)
            => log[i].step <= log[j].step

(* C1: in every step k of the coupling loop whose groundwater update has   *)
(* been invoked, the hydrologic advance, calculate and output, and, for    *)
(* every field coupled to a target slot, its extraction, its unit          *)
(* conversion, the remapping and the write into the slot (RUNOFF, SINF,    *)
(* PET) have each happened exactly once and in this order, all of them     *)
(* before the update of step k and after everything of step k-1.           *)
C1_StepOrder ==
    /\ StepsInOrder
    /\ \A k \in 0..(N - 1) : UpdateInvoked(k) => PhasesInOrder(k)

C1_Witness ==
    /\ Cardinality(OkCalls("update", "mf6")) >= 2
    /\ pc = "for"

(* C2 (as claimed): when mf6.update() fails at step k, both finalize calls *)
(* are still made exactly once each and the error reported names step k.   *)
C2_FinalizeAfterFailedUpdate ==
    \A i \in FailedCalls :
        (log[i].op = "update" /\ pc = "raised") =>
            /\ Cardinality(Calls("finalize", "mf6")) = 1
            /\ Cardinality(Calls("finalize", "prms")) = 1
            /\ error.step = log[i].step

(* C3 (as claimed): once the run has ended after a finalize call was made, *)
(* both finalize calls have been made, whichever of them failed, and the   *)
(* error reported names every finalize call that failed.                   *)
C3_BothFinalizeAttempted ==
    (pc \in {"done", "raised"}
        /\ (Calls("finalize", "mf6") \cup Calls("finalize", "prms")) /= {}) =>
        /\ Cardinality(Calls("finalize", "mf6")) = 1
        /\ Cardinality(Calls("finalize", "prms")) = 1
        /\ \A i \in FailedCalls :
             log[i].op = "finalize" => error.origin = FinalizeName(log[i].arg)

(* C4: a finalize of the hydrologic simulator is preceded by the finalize  *)
(* of the groundwater simulator, and every finalize call comes after all   *)
(* N steps of the loop have ended: N updates returned before it and no     *)
(* call of the loop body follows it.                                       *)
C4_FinalizeOrder ==
    /\ \A i \in Calls("finalize", "prms") :
           \E j \in Calls("finalize", "mf6") : j < i
    /\ \A i \in DOMAIN log :
           log[i].op = "finalize" =>
               /\ Cardinality({j \in OkCalls("update", "mf6") : j < i}) = N
               /\ \A j \in DOMAIN log : j > i => log[j].op = "finalize"

C4_Witness ==
    /\ N >= 2
    /\ Calls("finalize", "mf6") /= {}
    /\ Calls("finalize", "prms") /= {}

(* C5: a finalize call that failed is never swallowed: the loop cell has   *)
(* ended with a RuntimeError, success is not set and the run is not in the *)
(* Terminated state.                                                       *)
C5_FinalizeFailureSurfaced ==
    \A i \in FailedCalls :
        log[i].op = "finalize" =>
            /\ pc = "raised"
            /\ error.type = "RuntimeError"
            /\ ~success

C5_Witness ==
    /\ \E i \in FailedCalls : log[i].op = "finalize" /\ log[i].arg = "prms"
    /\ pc = "raised"

(* C6 (as claimed): when the run has ended in Failed, the error reported   *)
(* names the phase that failed: the simulator call and the step index k at *)
(* which it failed, or the finalize of the simulator that failed.          *)
C6_ErrorNamesPhase ==
    pc = "raised" =>
        \E i \in FailedCalls :
            IF log[i].op = "finalize"
            THEN error.origin = FinalizeName(log[i].arg)
            ELSE error.origin = log[i].op /\ error.step = log[i].step

(* The groundwater horizon, in steps of one day, is shorter than N *)
HorizonMismatch == mf6_end_time < N

(* C7 (as claimed): with a groundwater horizon shorter than N the run is   *)
(* rejected before the loop starts: no hydrologic advance, no slot write   *)
(* and no groundwater update is ever made, MF6 is never taken past its end *)
(* time, and a run that has ended has ended with a ConfigurationError.     *)
C7_MismatchRejected ==
    HorizonMismatch =>
        /\ Calls("advance", "prms") = {}
        /\ \A slot \in Slots : Calls("write", slot) = {}
        /\ Calls("update", "mf6") = {}
        /\ mf6_current_time <= mf6_end_time
        /\ pc \in {"done", "raised"} => error.type = "ConfigurationError"

LifecycleOrder ==
    {<<"Uninitialized", "Ready">>, <<"Ready", "Running">>,
     <<"Running", "Finalizing">>, <<"Finalizing", "Terminated">>,
     <<"Running", "Failed">>, <<"Finalizing", "Failed">>}

LifecycleStep ==
    /\ Lifecycle' /= Lifecycle => <<Lifecycle, Lifecycle'>> \in LifecycleOrder
    /\ Lifecycle \in {"Terminated", "Failed"} =>
           /\ Lifecycle' = Lifecycle
           /\ log' = log
           /\ UNCHANGED <<prms, mf6_vars, current_time, mf6_current_time>>

TerminatedMeansSuccess ==
    Lifecycle = "Terminated" =>
        /\ FailedCalls = {}
        /\ Cardinality(OkCalls("finalize", "mf6")) = 1
        /\ Cardinality(OkCalls("finalize", "prms")) = 1
        /\ \A k \in 0..(N - 1) : CallsAt("update", "mf6", k) \cap OkCalls("update", "mf6") /= {}
        /\ Cardinality(OkCalls("update", "mf6")) = N

(* C8: the life cycle moves only along Uninitialized -> Ready -> Running   *)
(* -> Finalizing -> Terminated, or from Running or Finalizing to Failed;   *)
(* in Terminated and in Failed no simulator is called or changed any more; *)
(* and Terminated is reached only with both finalize calls returned        *)
(* without error after exactly N completed steps.                          *)
C8_Lifecycle == [][LifecycleStep]_vars /\ []TerminatedMeansSuccess

C8_Witness ==
    /\ Lifecycle = "Terminated"
    /\ N >= 2
    /\ exported /= {}

(* C9: when the run has succeeded, prms_model.advance() has been called    *)
(* exactly N times and mf6.update() exactly N times, N = control.n_times   *)
(* as read at the start of the loop.                                       *)
C9_StepCounts ==
    (pc = "done" /\ success) =>
        /\ Cardinality(Calls("advance", "prms")) = N
        /\ Cardinality(Calls("update", "mf6")) = N
        /\ n_time_steps = N

C9_Witness ==
    /\ pc = "done"
    /\ success
    /\ N >= 2
    /\ Cardinality(Calls("update", "mf6")) >= 2

(* C10 (as claimed): the diagnostics are exported only in the Terminated   *)
(* state; after a run that ended in Failed nothing is exported.            *)
C10_ExportOnlyTerminated ==
    exported /= {} => Lifecycle = "Terminated"

RecordCalls == Calls("record", "prms_var_dict")

RecordProbed == probe.kind = "record" /\ probe.done

(* C11: every array of the custom output has exactly N rows; a store at an  *)
(* index >= N fails and leaves the arrays as they were, a store at an index *)
(* < N succeeds and keeps the capacity; the loop stores at 0, 1, ... in     *)
(* increasing order, once each, never at N or beyond, and a run that        *)
(* completes has stored at every index 0..N-1.                              *)
C11_DiagCapacity ==
    /\ pc \notin {"uninit", "probe"} =>
         \A v \in DOMAIN prms_var_dict : Len(prms_var_dict[v]) = N
    /\ RecordProbed =>
         LET x == probe.in
             fresh == NewVarDict(x.n, NHRU)
         IN /\ \A v \in DOMAIN fresh : Len(fresh[v]) = x.n
            /\ x.k >= x.n => ~probe.out.ok /\ probe.out.dict = fresh
            /\ x.k < x.n =>
                 /\ probe.out.ok
                 /\ \A v \in DOMAIN fresh : Len(probe.out.dict[v]) = x.n
                 /\ probe.out.dict.time_out[x.k + 1] = x.t
    /\ \A i \in RecordCalls :
         /\ log[i].ok
         /\ log[i].step < N
         /\ log[i].step = Cardinality({j \in RecordCalls : j < i})
    /\ pc = "done" => Cardinality(RecordCalls) = N

C11_Witness ==
    RecordProbed /\ probe.in.k >= probe.in.n /\ probe.in.n > 0 /\ ~probe.out.ok

(* C12: after a run that completed all N steps and both finalize calls, the *)
(* export holds one dataset per diagnostic variable, each with N time       *)
(* entries and N rows; row k is the vector stored at step k, unchanged, and *)
(* time entry k is the instant stored at step k.                            *)
C12_ExportMatchesRecords ==
    (pc = "done" /\ exported /= {}) =>
        /\ Cardinality(exported) = Cardinality(DiagNames)
        /\ \A v \in DiagNames :
             \E e \in exported :
                /\ e.var = StripOut(v)
                /\ Len(e.time) = N
                /\ Len(e.data) = N
                /\ \A k \in 0..(N - 1) :
                     /\ Once("record", "prms_var_dict", k)
                     /\ \A i \in CallsAt("record", "prms_var_dict", k) :
                          /\ e.data[k + 1] = log[i].val.rows[v]
                          /\ e.time[k + 1].instant = log[i].val.time

C12_Witness ==
    /\ pc = "done"
    /\ N >= 2
    /\ \E e \in exported : e.data[1] /= e.data[2] /\ e.time[1] /= e.time[2]

(* the sum over s of row[s] * v[s], taken from the last source down *)
RowSum(row, v) ==
    LET g[n \in 1..(Len(v) + 1)] ==
          IF n > Len(v) THEN 0 ELSE row[n] * v[n] + g[n + 1]
    IN g[1]

RemapProbed == probe.kind = "remap" /\ probe.done

(* C13: for a weight matrix R with T rows and S columns and a vector v of   *)
(* length S, hru2mf6(R, v) has length T and its entry t is the sum over s   *)
(* of R[t][s] * v[s], whatever the row sums of R; hru2mf6(R, 0) is the zero *)
(* vector of length T.                                                      *)
C13_RemapIsProduct ==
    RemapProbed =>
        LET R == probe.in.R
            v == probe.in.v
        IN /\ Len(probe.out.rv) = Len(R)
           /\ \A t \in 1..Len(R) : probe.out.rv[t] = RowSum(R[t], v)
           /\ Len(probe.out.r0) = Len(R)
           /\ \A t \in 1..Len(R) : probe.out.r0[t] = 0

(* a row of weights that sums to 2 over sources that are not all zero *)
C13_Witness ==
    /\ RemapProbed
    /\ Len(probe.in.R) = NUzf
    /\ \E t \in 1..Len(probe.in.R) :
          /\ RowSum(probe.in.R[t], [h \in HRUs |-> 1]) >= 2
          /\ probe.out.rv[t] >= 2

ConvertProbed == probe.kind = "convert" /\ probe.done

(* C14: the conversion of a depth d over an area a is d * in2m * a per HRU; *)
(* it is additive and homogeneous in the depth, scales with the area, and   *)
(* converts the zero depth to zero over every area.                         *)
C14_ConvertLinear ==
    ConvertProbed =>
        LET x == probe.in
            o == probe.out
        IN \A h \in HRUs :
             /\ o.a[h] = x.d1[h] * in2m * x.area[h]
             /\ o.sum[h] = o.a[h] + o.b[h]
             /\ o.scaled[h] = x.c * o.a[h]
             /\ o.wider[h] = x.c * o.a[h]
             /\ o.zero[h] = 0

C14_Witness ==
    /\ ConvertProbed
    /\ probe.in.c = 3
    /\ \A h \in HRUs : probe.in.d1[h] > 0 /\ probe.in.d2[h] > 0
    /\ \E h \in HRUs : probe.out.scaled[h] > probe.out.sum[h]

UpdateCalls == Calls("update", "mf6")

(* with identity weights cell t receives HRU t, and nothing if there is   *)
(* no HRU t                                                                *)
CellOf(x, t) == IF t \in DOMAIN x THEN x[t] ELSE 0

(* what update sees at step k and what the export holds afterwards, on     *)
(* the prescribed fields, when step k is expected to carry expect[k + 1]   *)
ScenarioOutcome(expect) ==
    /\ \A i \in UpdateCalls :
         LET x == expect[log[i].step + 1] IN
           /\ \A t \in 1..nuzf_infilt :
                /\ log[i].val.PET[t] = CellOf(x, t)
                /\ log[i].val.SINF[t] = CellOf(x, t)
           /\ \A t \in DOMAIN log[i].val.RUNOFF :
                log[i].val.RUNOFF[t] = CellOf(x, t)
    /\ (pc = "done" /\ exported /= {}) =>
         \A e \in exported :
            e.var \in {"unused_potet", "runoff"} =>
               /\ Len(e.data) = Len(ScenarioValues)
               /\ \A k \in DOMAIN ScenarioValues : e.data[k] = expect[k]

StepCalls(ops, k) == {j \in DOMAIN log : log[j].op \in ops /\ log[j].step = k}

(* C16 as stated: the rows of step k are stored after the MF6 update of    *)
(* step k has been invoked.                                                *)
C16_RecordAfterUpdate ==
    \A i \in RecordCalls :
        \E j \in CallsAt("update", "mf6", log[i].step) : j < i

(* C16: the rows and the simulated time of step k are stored at index k,   *)
(* after every unit conversion of step k and before the writes into the    *)
(* MF6 arrays and the MF6 update of step k, hence before the advance of    *)
(* step k+1; no update of step k is invoked without them.                  *)
C16_RecordBeforeUpdate ==
    /\ \A i \in RecordCalls :
         LET k == log[i].step IN
           /\ log[i].ok
           /\ prms_var_dict.time_out[k + 1] = log[i].val.time
           /\ \A v \in DiagNames : prms_var_dict[v][k + 1] = log[i].val.rows[v]
           /\ StepCalls({"convert"}, k) /= {}
           /\ \A j \in StepCalls({"extract", "convert"}, k) : j < i
           /\ \A j \in StepCalls({"remap", "write", "update"}, k) : i < j
           /\ \A j \in StepCalls({"advance"}, k + 1) : i < j
    /\ \A j \in UpdateCalls : Once("record", "prms_var_dict", log[j].step)

C16_Witness ==
    /\ pc = "advance"
    /\ istep = 1
    /\ Cardinality(RecordCalls) = 1
    /\ CallsAt("update", "mf6", 0) /= {}

(* C17: once the fields of a step have been read and converted, every     *)
(* field held by the pywatershed processes still has the value calculate   *)
(* gave it in that step.                                                    *)
C17_SourceFieldsUntouched ==
    pc \in {"save", "set_ptrs", "update"} =>
        \A i \in CallsAt("calculate", "prms", istep) :
            log[i].ok => \A f \in FieldNames : prms[f] = log[i].val[f]

(* depth x of HRU h as a volume *)
Volume(x, h) == x[h] * in2m * hru_area_m2[h]

(* C18: when update is invoked at step k, RUNOFF is sfrw applied to the    *)
(* sum of the four runoff fields of step k (hru_horton_cascflow,           *)
(* dunnian_flow, pref_flow, slow_flow), the first nuzf_infilt entries of   *)
(* SINF are uzfw applied to ssr_to_gw + soil_to_gw and those of PET are    *)
(* uzfw applied to unused_potet, each field converted to a volume exactly  *)
(* once, per HRU and before the weights are applied.                       *)
C18_SlotContents ==
    \A i \in UpdateCalls :
        \A c \in CallsAt("calculate", "prms", log[i].step) :
            LET F == log[c].val
                ro == [h \in HRUs |->
                         Volume(F.hru_horton_cascflow, h) + Volume(F.dunnian_flow, h)
                         + Volume(F.pref_flow, h) + Volume(F.slow_flow, h)]
                rech == [h \in HRUs |-> Volume(VecAdd(F.ssr_to_gw, F.soil_to_gw), h)]
                pet == [h \in HRUs |-> Volume(F.unused_potet, h)]
                seen == log[i].val
            IN /\ Len(seen.RUNOFF) = Len(sfrw)
               /\ \A t \in 1..Len(sfrw) : seen.RUNOFF[t] = RowSum(sfrw[t], ro)
               /\ \A t \in 1..Len(uzfw) :
                    /\ seen.SINF[t] = RowSum(uzfw[t], rech)
                    /\ seen.PET[t] = RowSum(uzfw[t], pet)
               /\ \A slot \in Slots :
                    \A fl \in SlotSources(slot) :
                       /\ Once("convert", fl[2], log[i].step)
                       /\ Before(CallsAt("convert", fl[2], log[i].step),
                                 CallsAt("remap", slot, log[i].step))

C18_Witness ==
    /\ pc = "update"
    /\ istep = 1
    /\ \E t \in DOMAIN mf6_vars.RUNOFF : mf6_vars.RUNOFF[t] > 0
    /\ \E t \in 1..nuzf_infilt : mf6_vars.SINF[t] > 0 /\ mf6_vars.PET[t] > 0

LayeredSlots == {"SINF", "PET"}

(* C19: the loop writes SINF and PET at entries 0..nuzf_infilt-1 only (the *)
(* first layer): every entry from nuzf_infilt on keeps the value MF6 holds *)
(* there, in every state and in every array a write leaves behind, while   *)
(* the first nuzf_infilt entries have been set; a write of RUNOFF sets the *)
(* whole array.                                                            *)
C19_FirstLayerOnly ==
    /\ \A slot \in LayeredSlots :
         /\ Len(mf6_vars[slot]) = NLay * nuzf_infilt
         /\ \A t \in (nuzf_infilt + 1)..Len(mf6_vars[slot]) :
              mf6_vars[slot][t] = Mf6Maintained
    /\ \A i \in DOMAIN log :
         log[i].op = "write" =>
            /\ log[i].arg \in LayeredSlots =>
                 /\ \A t \in 1..nuzf_infilt : log[i].val[t] >= 0
                 /\ \A t \in (nuzf_infilt + 1)..Len(log[i].val) :
                      log[i].val[t] = Mf6Maintained
            /\ log[i].arg = "RUNOFF" =>
                 /\ Len(log[i].val) = Len(sfrw)
                 /\ \A t \in 1..Len(log[i].val) : log[i].val[t] >= 0

C19_Witness ==
    /\ pc = "for"
    /\ istep = 1
    /\ Cardinality(Calls("write", "SINF")) = 2
    /\ \A slot \in LayeredSlots :
         /\ mf6_vars[slot][1] > 0
         /\ mf6_vars[slot][nuzf_infilt + 1] = Mf6Maintained

WriteCalls == {j \in DOMAIN log : log[j].op = "write"}

(* step k has been advanced and calculated, and its update not yet invoked *)
WindowOpen(k) ==
    /\ OkCalls("advance", "prms") \cap CallsAt("advance", "prms", k) /= {}
    /\ OkCalls("calculate", "prms") \cap CallsAt("calculate", "prms", k) /= {}
    /\ CallsAt("update", "mf6", k) = {}

WritesInWindow ==
    \A j \in WriteCalls :
        LET k == log[j].step IN
          /\ \E a \in CallsAt("advance", "prms", k) :
               \E c \in CallsAt("calculate", "prms", k) :
                  a < c /\ c < j /\ log[a].ok /\ log[c].ok
          /\ \A u \in CallsAt("update", "mf6", k) : j < u
          /\ \A a \in CallsAt("advance", "prms", k + 1) : j < a
          /\ \A f \in DOMAIN log : log[f].op = "finalize" => j < f
          /\ \A f \in FailedCalls : j < f

SlotsChangeInWindow ==
    mf6_vars' /= mf6_vars =>
        /\ Lifecycle = "Running"
        /\ error = NoError
        /\ WindowOpen(istep)
        /\ Len(log') > Len(log)
        /\ log'[Len(log')].op = "write"

(* C20: an MF6 array is written only after the advance and calculate of a *)
(* step succeeded and before the update of that step is invoked: never    *)
(* before the first advance, between an update and the next advance,      *)
(* during or after the finalize calls, or after a call has failed.        *)
C20_WriteWindow == [][SlotsChangeInWindow]_vars /\ []WritesInWindow

C20_Witness ==
    /\ pc = "update"
    /\ istep = 1
    /\ Cardinality(WriteCalls) = 2 * Cardinality(Slots)
    /\ WindowOpen(1)
    /\ ~WindowOpen(0)

AdvanceCalls == Calls("advance", "prms")

(* C21: the calls of prms_model.advance() are never more than one ahead of *)
(* the calls of mf6.update() and never behind, and advance of step k+1 is  *)
(* invoked only after update of step k has returned without an exception.  *)
C21_Lockstep ==
    /\ Cardinality(AdvanceCalls) - Cardinality(UpdateCalls) \in {0, 1}
    /\ \A a \in AdvanceCalls :
         log[a].step > 0 =>
            \E u \in CallsAt("update", "mf6", log[a].step - 1) :
               u < a /\ log[u].ok

C21_Witness ==
    /\ pc = "calculate"
    /\ istep = 1
    /\ Cardinality(AdvanceCalls) = 2
    /\ Cardinality(UpdateCalls) = 1

WeightsAndAreaKept ==
    /\ sfrw' = sfrw
    /\ uzfw' = uzfw
    /\ hru_area_m2' = hru_area_m2

WeightsAndAreaAsLoaded ==
    /\ sfrw = SfrWeights
    /\ uzfw = UzfWeights
    /\ hru_area_m2 = HruAreaM2

(* C22: sfrw, uzfw and hru_area_m2 are changed by no operation of the run: *)
(* in every state they have the values loaded before the loop.             *)
C22_OperatorsUnchanged == [][WeightsAndAreaKept]_vars /\ []WeightsAndAreaAsLoaded

C22_Witness ==
    /\ pc = "done"
    /\ N = MaxSteps
    /\ Cardinality(WriteCalls) = MaxSteps * Cardinality(Slots)
    /\ WeightsAndAreaAsLoaded

StepOps == {"advance", "calculate", "update"}

FailedStepCalls == {f \in FailedCalls : log[f].op \in StepOps}

(* C23: once advance, calculate or update has failed at step k the run is  *)
(* no longer Running, and no advance, calculate, update or write into an   *)
(* MF6 array follows the failed call, for step k or any other step; no     *)
(* step index is executed twice: each of these calls happens at most once  *)
(* per step, and a failed call is the last of them.                        *)
C23_NoRetry ==
    /\ \A f \in FailedStepCalls :
         /\ Lifecycle = "Failed"
         /\ \A j \in DOMAIN log :
              (j > f) => log[j].op \notin (StepOps \cup {"write"})
    /\ \A k \in 0..(N - 1) :
         /\ \A op \in {"advance", "calculate"} :
              Cardinality(CallsAt(op, "prms", k)) <= 1
         /\ Cardinality(CallsAt("update", "mf6", k)) <= 1
         /\ \A slot \in Slots : Cardinality(CallsAt("write", slot, k)) <= 1
    /\ \A j \in DOMAIN log :
         log[j].op \in (StepOps \cup {"write"}) => log[j].step \in 0..(N - 1)

(* a step failed after an earlier one completed *)
C23_Witness ==
    /\ pc = "raised"
    /\ istep = 1
    /\ FailedStepCalls /= {}
    /\ OkCalls("update", "mf6") /= {}

ShapeMismatch ==
    \/ \E t \in DOMAIN sfrw : Len(sfrw[t]) /= Len(hru_area_m2)
    \/ \E t \in DOMAIN uzfw : Len(uzfw[t]) /= Len(hru_area_m2)

(* C24: when sfrw or uzfw has a number of columns other than the number of *)
(* HRUs, the error is raised before the loop: neither prms_model.advance() *)
(* nor mf6.update() has been called, then or at any time of the run.       *)
C24_MismatchBeforeLoop ==
    ShapeMismatch =>
        /\ AdvanceCalls = {}
        /\ UpdateCalls = {}

(* the entries of an MF6 array the loop sets *)
Owned(slot) ==
    IF slot = "RUNOFF" THEN DOMAIN mf6_vars.RUNOFF ELSE 1..nuzf_infilt

(* entry t of a slot as the fields F of one step determine it *)
FreshEntry(slot, F, t) ==
    CASE slot = "RUNOFF" ->
           RowSum(sfrw[t],
                  [h \in HRUs |->
                     Volume(F.hru_horton_cascflow, h) + Volume(F.dunnian_flow, h)
                     + Volume(F.pref_flow, h) + Volume(F.slow_flow, h)])
      [] slot = "SINF" ->
           RowSum(uzfw[t],
                  [h \in HRUs |-> Volume(F.ssr_to_gw, h) + Volume(F.soil_to_gw, h)])
      [] slot = "PET" ->
           RowSum(uzfw[t], [h \in HRUs |-> Volume(F.unused_potet, h)])

(* C25: at every update of step k, each entry of RUNOFF and each of the    *)
(* first nuzf_infilt entries of SINF and PET has been written in step k,   *)
(* after the update of step k-1, with the value the fields of step k give: *)
(* update never sees there what step k-1 left.                             *)
C25_NoStaleSlots ==
    \A u \in UpdateCalls :
        LET k == log[u].step IN
          \A slot \in Slots :
             /\ \E w \in CallsAt("write", slot, k) :
                   /\ w < u
                   /\ \A p \in CallsAt("update", "mf6", k - 1) : p < w
                   /\ \A t \in Owned(slot) : log[u].val[slot][t] = log[w].val[t]
             /\ \A c \in CallsAt("calculate", "prms", k) :
                   \A t \in Owned(slot) :
                      log[u].val[slot][t] = FreshEntry(slot, log[c].val, t)

(* two updates that saw different values in every entry the loop sets *)
C25_Witness ==
    /\ pc = "for"
    /\ istep = 1
    /\ \E u0 \in CallsAt("update", "mf6", 0) :
         \E u1 \in CallsAt("update", "mf6", 1) :
            \A slot \in Slots :
               \A t \in Owned(slot) :
                  log[u0].val[slot][t] /= log[u1].val[slot][t]

InRun == Lifecycle \in {"Running", "Finalizing"}

RunEnded == Lifecycle \in {"Terminated", "Failed"}

(* C26: whatever the step count and whichever simulator calls fail, a run  *)
(* that is Running or Finalizing eventually is Terminated or Failed.       *)
C26_RunEnds == InRun ~> RunEnded

C26_Witness ==
    /\ Lifecycle = "Terminated"
    /\ N > 0
    /\ Cardinality(OkCalls("update", "mf6")) = N
    /\ exported = {}

(* runoff_out + interflow_out of a stored set of rows, per HRU *)
LoggedRunoff(rows) == [h \in HRUs |-> rows.runoff_out[h] + rows.interflow_out[h]]

(* C27: at every step k the rows runoff_out[k] and interflow_out[k] add    *)
(* up, HRU by HRU, to prms_ro, the vector sfrw is applied to for the       *)
(* RUNOFF array of step k.                                                 *)
C27_LoggedRunoffIsCoupled ==
    \A r \in RecordCalls :
        LET k == log[r].step
            total == LoggedRunoff(log[r].val.rows)
        IN /\ (istep = k /\ pc \in {"set_ptrs", "update"}) => loc.prms_ro = total
           /\ total = [h \in HRUs |->
                         prms_var_dict.runoff_out[k + 1][h]
                         + prms_var_dict.interflow_out[k + 1][h]]
           /\ \A w \in CallsAt("write", "RUNOFF", k) :
                 \A t \in DOMAIN log[w].val :
                    log[w].val[t] = RowSum(sfrw[t], total)

C27_Witness ==
    /\ pc = "update"
    /\ istep = 0
    /\ \A h \in HRUs :
          /\ prms_var_dict.runoff_out[1][h] > 0
          /\ prms_var_dict.interflow_out[1][h] > 0
    /\ Calls("write", "RUNOFF") /= {}

(* C28: at every step k the first nuzf_infilt entries of PET that update  *)
(* sees are uzfw applied to the row unused_potet_out[k] stored in the same *)
(* step: the vector coupled and the vector logged are one vector.          *)
C28_PetIsLoggedPotet ==
    \A u \in UpdateCalls :
        LET k == log[u].step IN
          /\ Once("record", "prms_var_dict", k)
          /\ \A r \in CallsAt("record", "prms_var_dict", k) :
               /\ r < u
               /\ log[r].val.rows.unused_potet_out = prms_var_dict.unused_potet_out[k + 1]
               /\ \A t \in 1..nuzf_infilt :
                    log[u].val.PET[t] =
                       RowSum(uzfw[t], log[r].val.rows.unused_potet_out)

C28_Witness ==
    /\ pc = "for"
    /\ istep = 0
    /\ UpdateCalls /= {}
    /\ \A h \in HRUs : prms_var_dict.unused_potet_out[1][h] > 0
    /\ \A t \in 1..nuzf_infilt : mf6_vars.PET[t] > 0

FinalizeCalls == {j \in DOMAIN log : log[j].op = "finalize"}

(* C29: with N = 0 the loop body is never executed: no advance, calculate, *)
(* update, write into an MF6 array or store into the custom output ever    *)
(* happens, the MF6 arrays keep their values and the custom output has no  *)
(* rows; the only calls are the finalize calls, MF6 first, and when they   *)
(* return the run has ended with both invoked once each, success set, and  *)
(* nothing but a finalize call can have failed.                            *)
C29_EmptyRun ==
    N = 0 =>
        /\ \A j \in DOMAIN log : log[j].op = "finalize"
        /\ \A slot \in Slots : \A t \in DOMAIN mf6_vars[slot] :
              mf6_vars[slot][t] = Mf6Maintained
        /\ pc \notin {"uninit"} =>
              \A v \in DOMAIN prms_var_dict : prms_var_dict[v] = <<>>
        /\ Lifecycle \notin {"Running", "Uninitialized", "Ready"} =>
              /\ Cardinality(Calls("finalize", "mf6")) <= 1
              /\ Cardinality(Calls("finalize", "prms")) <= 1
              /\ Before(Calls("finalize", "mf6"), Calls("finalize", "prms"))
        /\ (Lifecycle \in {"Terminated", "Failed"} /\ FailedCalls = {}) =>
              /\ Lifecycle = "Terminated"
              /\ success
              /\ Once("finalize", "mf6", NoStep)
              /\ Once("finalize", "prms", NoStep)
        /\ \A e \in exported : e.time = <<>> /\ e.data = <<>>

C29_Witness ==
    /\ N = 0
    /\ pc = "done"
    /\ success
    /\ Cardinality(FinalizeCalls) = 2
    /\ exported /= {}

FailedPrmsCalls == {f \in FailedCalls : log[f].op \in {"advance", "calculate"}}

(* C30: after prms_model.advance() or calculate() has failed at step k,    *)
(* the MF6 arrays hold what the writes of step k-1 left (what MF6 held     *)
(* before the loop when k = 0), mf6.update() has been called exactly k     *)
(* times, and the rows k, k+1, ... of the custom output are as allocated.  *)
C30_StateAfterPrmsFailure ==
    \A f \in FailedPrmsCalls :
        LET k == log[f].step IN
          /\ Cardinality(UpdateCalls) = k
          /\ \A u \in UpdateCalls : log[u].ok /\ log[u].step < k
          /\ mf6_current_time = k
          /\ \A slot \in Slots :
               IF k = 0
               THEN \A t \in DOMAIN mf6_vars[slot] : mf6_vars[slot][t] = Mf6Maintained
               ELSE /\ Once("write", slot, k - 1)
                    /\ \A w \in CallsAt("write", slot, k - 1) :
                          mf6_vars[slot] = log[w].val
          /\ \A i \in (k + 1)..N :
               /\ prms_var_dict.time_out[i] = EmptyTime
               /\ \A v \in DiagNames : prms_var_dict[v][i] = ZeroVec

(* a failure at step 1, after step 0 stored rows other than zero *)
C30_Witness ==
    /\ pc = "raised"
    /\ N >= 2
    /\ \E f \in FailedPrmsCalls : log[f].step = 1
    /\ \A v \in DiagNames : prms_var_dict[v][1] /= ZeroVec
    /\ mf6_vars.RUNOFF[1] > 0

====
